---- MODULE Spec2Model ----
(***************************************************************************)
(* Model of scripts/check_data_health.py: the DataHealthChecker.           *)
(*                                                                         *)
(* The constructor fills self.data (an insertion-ordered dict from a key   *)
(* to a pandas DataFrame) either from a directory of csv files or from the *)
(* qlib provider (load_qlib_data), and four checks read self.data.         *)
(*                                                                         *)
(* A DataFrame is a record                                                 *)
(*   index_kind : "RangeIndex" (pd.read_csv) or "MultiIndex" (D.features)  *)
(*   index      : the row labels, 0,1,2.. or <<instrument, timestamp>>     *)
(*   columns    : the set of column names                                  *)
(*   col        : column name -> sequence of cells                         *)
(* A cell is {} for NaN and {v} for the number v.  A percentage change is  *)
(* <<>> for NaN, <<1, 0>> for inf and otherwise the reduced fraction       *)
(* <<num, den>>; floating point rounding is not modelled.                  *)
(***************************************************************************)
EXTENDS Integers, Sequences, FiniteSets, TLC

\* ------------------------------------------------------------------ bounds
\* Length of the instrument universe / number of csv files in the directory.
MaxInstruments == 2

\* --------------------------------------------------------------- constants
\* The values of the missing_data_num argument that are tried (default 0).
MissingDataNums == {0, 1}

OHLCV == <<"open", "high", "low", "close", "volume">>

OHLCVSet == {OHLCV[i] : i \in 1..Len(OHLCV)}

\* required_fields of load_qlib_data after the rename of line 87.
ProviderColumns == OHLCVSet \cup {"factor"}

\* Default thresholds of the constructor, as fractions <<num, den>>.
large_step_threshold_price == <<1, 2>>

large_step_threshold_volume == <<3, 1>>

\* The markets load_qlib_data tries, in the order of its nested handlers.
PrimaryMarket == "all"

FallbackMarkets == <<"twii", "tw50", "twmidcap">>

Markets == <<PrimaryMarket>> \o FallbackMarkets

\* index_codes of check_missing_factor.
index_codes == <<"000300", "000903", "000905", "^TWII", "TWII">>

\* ---------------------------------------------------------------- fixtures
\* Identifiers of the provider's instruments, and the csv file of each.
InstrumentNames == <<"2330", "^TWII", "0050", "2317">>

FileNames == <<"2330.csv", "^TWII.csv", "0050.csv", "2317.csv">>

Instruments == SubSeq(InstrumentNames, 1, MaxInstruments)

CsvFiles == SubSeq(FileNames, 1, MaxInstruments)

\* A directory entry that is not a csv file.
OtherFile == "README.md"

\* Trading days of the fixture, and their "%Y-%m-%d" rendering.
Timestamps == <<<<2020, 1, 2>>, <<2020, 1, 3>>, <<2020, 1, 6>>>>

RECURSIVE Reverse(_)
Reverse(s) == IF s = <<>> THEN <<>> ELSE Reverse(Tail(s)) \o <<Head(s)>>

Range(s) == {s[i] : i \in 1..Len(s)}

\* The universe of each market in the provider fixture.
Universe(market) ==
  CASE market = "all"      -> Instruments
    [] market = "twii"     -> SubSeq(Instruments, 1, 1)
    [] market = "tw50"     -> Tail(Instruments)
    [] market = "twmidcap" -> <<InstrumentNames[3], InstrumentNames[1]>>

\* ------------------------------------------------------------- conversions
Digit(d) == <<"0", "1", "2", "3", "4", "5", "6", "7", "8", "9">>[d + 1]

TwoDigits(n) == Digit(n \div 10) \o Digit(n % 10)

FourDigits(n) == TwoDigits(n \div 100) \o TwoDigits(n % 100)

\* Timestamp.strftime("%Y-%m-%d")
strftime(t) == FourDigits(t[1]) \o "-" \o TwoDigits(t[2]) \o "-" \o TwoDigits(t[3])

\* str.endswith(".csv") on the directory entries of the fixture.
EndsWithCsv(f) == f \in Range(FileNames)

Contains_equality(name, code) == name = code

\* Line 194, index_code in str(filename): code occurs in name at some
\* position.
Contains(name, code) ==
  \E i \in 1..(Len(name) - Len(code) + 1) : SubSeq(name, i, i + Len(code) - 1) = code

\* ------------------------------------------------------------------ cells
NaN == {}

IsNull(x) == x = NaN

Val(x) == CHOOSE v \in x : TRUE

Abs(n) == IF n < 0 THEN -n ELSE n

RECURSIVE GCD(_, _)
GCD(a, b) == IF b = 0 THEN a ELSE GCD(b, a % b)

\* ------------------------------------------------------ percentage changes
PctNaN == <<>>

PctInf == <<1, 0>>

Frac(n, d) == <<n \div GCD(n, d), d \div GCD(n, d)>>

\* a > b on percentage changes; any comparison with NaN is False.
Gt(a, b) ==
  /\ a # PctNaN
  /\ b # PctNaN
  /\ a[1] * b[2] > b[1] * a[2]

\* Series.pct_change(fill_method=None).abs(): x[i] / x[i-1] - 1, absolute.
PctChangeAbs(s) ==
  [i \in 1..Len(s) |->
    IF i = 1 THEN PctNaN
    ELSE IF IsNull(s[i]) \/ IsNull(s[i - 1]) THEN PctNaN
    ELSE IF Val(s[i - 1]) = 0
         THEN (IF Val(s[i]) = 0 THEN PctNaN ELSE PctInf)
    ELSE Frac(Abs(Val(s[i]) - Val(s[i - 1])), Abs(Val(s[i - 1])))]

\* Series.max(): NaN is skipped; NaN when nothing is left.
PctMax(p) ==
  LET defined == {i \in 1..Len(p) : p[i] # PctNaN}
  IN IF defined = {} THEN PctNaN
     ELSE p[CHOOSE i \in defined : \A j \in defined : ~Gt(p[j], p[i])]

\* df.isnull().sum()[c]
NullCount(df, c) == Cardinality({i \in 1..Len(df.col[c]) : IsNull(df.col[c][i])})

\* ------------------------------------------------------------- data frames
\* The observations a source may hold for one instrument: every column has
\* the value 100 in every row, except the column `special`, which holds
\* `cells`; the columns of `absent` do not exist.
Shape(absent, special, cells) == [absent |-> absent, special |-> special, cells |-> cells]

\* Observations that either source may hold.
CommonShapes ==
  { Shape({}, "open",   <<>>),
    Shape({}, "low",    <<{100}, {101}>>),
    Shape({}, "close",  <<{100}, {101}, {250}>>),
    Shape({}, "open",   <<NaN, {100}>>),
    Shape({}, "factor", <<NaN, {100}>>),
    Shape({}, "factor", <<NaN, NaN>>) }

\* What the provider may return: D.features returns one column per
\* requested field, so no column is absent.
ProviderShapes ==
  CommonShapes \cup
  { Shape({}, "open",   <<{100}>>),
    Shape({}, "close",  <<{250}, {100}, {250}>>),
    Shape({}, "close",  <<{100}, NaN, {250}>>),
    Shape({}, "volume", <<{100}, {250}>>),
    Shape({}, "volume", <<{0}, {100}>>),
    Shape({}, "high",   <<NaN, NaN>>) }

\* What a csv file may hold: files may lack columns.
CsvShapes ==
  CommonShapes \cup
  { Shape({"volume"}, "low", <<{100}, {101}>>),
    Shape({"volume"}, "close", <<{100}, {250}>>),
    Shape({"volume"}, "close", <<NaN, {100}>>),
    Shape({"factor"}, "low", <<{100}, {101}>>),
    Shape({"open", "high"}, "low", <<{100}, {101}>>),
    Shape(OHLCVSet, "factor", <<{100}, {100}>>) }

\* pd.read_csv(path): rows labelled 0, 1, 2, ..; the date is a column.
read_csv(shape) ==
  LET n == Len(shape.cells)
      columns == (ProviderColumns \ shape.absent) \cup {"date"}
  IN [index_kind |-> "RangeIndex",
      index |-> [i \in 1..n |-> i - 1],
      columns |-> columns,
      col |-> [c \in columns |->
                 IF c = "date" THEN [i \in 1..n |-> {strftime(Timestamps[i])}]
                 ELSE IF c = shape.special THEN shape.cells
                 ELSE [i \in 1..n |-> {100}]]]

\* D.features([instrument], required_fields) followed by df.rename: rows
\* labelled <<instrument, datetime>>.
features(instrument, shape) ==
  LET n == Len(shape.cells)
      columns == ProviderColumns
  IN [index_kind |-> "MultiIndex",
      index |-> [i \in 1..n |-> <<instrument, Timestamps[i]>>],
      columns |-> columns,
      col |-> [c \in columns |->
                 IF c = shape.special THEN shape.cells
                 ELSE [i \in 1..n |-> {100}]]]

\* ------------------------------------------------------------------- state
VARIABLES
  pc,               \* position of the program
  csv_path,         \* constructor argument: TRUE when a path is given
  qlib_dir,         \* constructor argument: TRUE when a path is given
  missing_data_num, \* constructor argument
  data,             \* self.data: sequence of [key, df], in insertion order
  pending,          \* the list a loading loop still has to go through
  attempted,        \* the markets tried so far, each with its outcome
  loads,            \* the keys whose load was attempted, with the outcome
  error,            \* the exception the constructor raised, or "none"
  last,             \* the last check called and what it returned
  again             \* TRUE iff the last call repeated the call before it

vars == <<pc, csv_path, qlib_dir, missing_data_num, data, pending, attempted,
          loads, error, last, again>>

NoCall == [op |-> "none", kind |-> "None", rows |-> <<>>, error |-> "none"]

Init ==
  /\ pc = "start"
  /\ csv_path \in BOOLEAN
  /\ qlib_dir \in BOOLEAN
  /\ missing_data_num \in MissingDataNums
  /\ data = <<>>
  /\ pending = <<>>
  /\ attempted = <<>>
  /\ loads = <<>>
  /\ error = "none"
  /\ last = NoCall
  /\ again = FALSE

\* ------------------------------------------------------------- constructor
\* What os.listdir may return: any stretch of the directory of the fixture,
\* and the short ones in the opposite order too (the order is arbitrary).
DirListings ==
  LET full == <<CsvFiles[1], OtherFile>> \o Tail(CsvFiles)
      parts == {SubSeq(full, i, j) : i \in 1..Len(full) + 1, j \in 0..Len(full)}
  IN parts \cup {Reverse(p) : p \in {q \in parts : Len(q) <= 3}}

RECURSIVE SelectCsv(_)
SelectCsv(listing) ==
  IF listing = <<>> THEN <<>>
  ELSE IF EndsWithCsv(Head(listing)) THEN <<Head(listing)>> \o SelectCsv(Tail(listing))
  ELSE SelectCsv(Tail(listing))

arguments_valid_first_only(cp, qd) == cp \/ qd

\* Lines 30-31: the two assertions of __init__.
arguments_valid(cp, qd) == (cp \/ qd) /\ ~(cp /\ qd)

\* __init__, lines 30-42 and 47-48: the two assertions, the fields, and the
\* choice of the source.
Construct ==
  /\ pc = "start"
  /\ UNCHANGED <<csv_path, qlib_dir, missing_data_num, data, attempted, loads, last, again>>
  /\ IF ~arguments_valid(csv_path, qlib_dir)
     THEN /\ error' = "AssertionError"
          /\ pc' = "raised"
          /\ pending' = <<>>
     ELSE IF csv_path
     THEN \E isdir \in BOOLEAN :
            IF ~isdir
            THEN /\ error' = "AssertionError"
                 /\ pc' = "raised"
                 /\ pending' = <<>>
            ELSE \E listing \in DirListings :
                   /\ pending' = SelectCsv(listing)
                   /\ pc' = IF pending' = <<>> THEN "ready" ELSE "read_csv"
                   /\ error' = "none"
     ELSE /\ pc' = "resolve"
          /\ pending' = <<>>
          /\ error' = "none"

\* __init__, lines 43-45: one iteration of the loop over the csv files.  An
\* exception of pd.read_csv is not caught.
ReadCsv ==
  /\ pc = "read_csv"
  /\ pending # <<>>
  /\ UNCHANGED <<csv_path, qlib_dir, missing_data_num, attempted, last, again>>
  /\ \/ \E shape \in CsvShapes :
          /\ data' = Append(data, [key |-> Head(pending), df |-> read_csv(shape)])
          /\ loads' = Append(loads, [key |-> Head(pending), ok |-> TRUE])
          /\ pending' = Tail(pending)
          /\ pc' = IF pending' = <<>> THEN "ready" ELSE "read_csv"
          /\ error' = "none"
     \/ /\ loads' = Append(loads, [key |-> Head(pending), ok |-> FALSE])
        /\ error' = "ParserError"
        /\ pc' = "raised"
        /\ pending' = <<>>
        /\ data' = data

\* What resolving a market (D.instruments and D.list_instruments) may do.
\* "ValueError:all.txt" is a ValueError whose message contains "all.txt".
ResolveOutcomes == {"ok", "ValueError:all.txt", "ValueError", "KeyError"}

IsValueError(o) == o \in {"ValueError:all.txt", "ValueError"}

NamesAllTxt(o) == o = "ValueError:all.txt"

falls_back_any_value_error(market, outcome) == IsValueError(outcome)

\* Lines 56-57, 64, 70 and 75: whether the handler of a failed attempt goes
\* on to the next market.  Every handler catches ValueError only, and the
\* primary market's asks for "all.txt" in the message.
falls_back(market, outcome) ==
  /\ IsValueError(outcome)
  /\ market = PrimaryMarket => NamesAllTxt(outcome)

handler_raises_last(market, outcome, e) ==
  IF ~falls_back(market, outcome) THEN [pc |-> "raised", error |-> outcome]
  ELSE IF market = Markets[Len(Markets)] THEN [pc |-> "raised", error |-> outcome]
  ELSE [pc |-> "resolve", error |-> "none"]

handler_swallows_exhaustion(market, outcome, e) ==
  IF ~falls_back(market, outcome) THEN [pc |-> "raised", error |-> outcome]
  ELSE IF market = Markets[Len(Markets)] THEN [pc |-> "ready", error |-> "none"]
  ELSE [pc |-> "resolve", error |-> "none"]

\* Lines 56-79: what a failed attempt leads to; e is the primary market's
\* exception, which line 77 raises when the last fallback has failed too.
handler(market, outcome, e) ==
  IF ~falls_back(market, outcome) THEN [pc |-> "raised", error |-> outcome]
  ELSE IF market = Markets[Len(Markets)] THEN [pc |-> "raised", error |-> e]
  ELSE [pc |-> "resolve", error |-> "none"]

\* load_qlib_data, lines 53-79: one attempt to resolve a market.  The
\* primary market is tried first; a fallback is tried inside the handler of
\* the previous attempt's ValueError.
ResolveMarket ==
  /\ pc = "resolve"
  /\ Len(attempted) < Len(Markets)
  /\ UNCHANGED <<csv_path, qlib_dir, missing_data_num, data, loads, last, again>>
  /\ LET market == Markets[Len(attempted) + 1]
     IN \E outcome \in ResolveOutcomes :
          /\ attempted' = Append(attempted, [market |-> market, outcome |-> outcome])
          /\ IF outcome = "ok"
             THEN /\ pending' = Universe(market)
                  /\ pc' = IF pending' = <<>> THEN "ready" ELSE "load"
                  /\ error' = "none"
             ELSE LET e == IF attempted = <<>> THEN outcome ELSE attempted[1].outcome
                      h == handler(market, outcome, e)
                  IN /\ pending' = <<>>
                     /\ pc' = h.pc
                     /\ error' = h.error

after_failure_break(todo) == <<>>

\* Lines 99-101: the handler of a failed load continues with the rest.
after_failure(todo) == Tail(todo)

LoadInstrument_stores_twice ==
  /\ pc = "load"
  /\ pending # <<>>
  /\ UNCHANGED <<csv_path, qlib_dir, missing_data_num, attempted, error, last, again>>
  /\ \/ \E shape \in ProviderShapes :
          LET entry == [key |-> Head(pending), df |-> features(Head(pending), shape)]
          IN /\ data' = data \o <<entry, entry>>
             /\ loads' = Append(loads, [key |-> Head(pending), ok |-> TRUE])
             /\ pending' = Tail(pending)
     \/ /\ data' = data
        /\ loads' = Append(loads, [key |-> Head(pending), ok |-> FALSE])
        /\ pending' = after_failure(pending)
  /\ pc' = IF pending' = <<>> THEN "ready" ELSE "load"

\* load_qlib_data, lines 84-101: one iteration of the loop over the
\* instruments.  Any Exception of D.features is caught and the instrument
\* skipped.
LoadInstrument ==
  /\ pc = "load"
  /\ pending # <<>>
  /\ UNCHANGED <<csv_path, qlib_dir, missing_data_num, attempted, error, last, again>>
  /\ \/ \E shape \in ProviderShapes :
          /\ data' = Append(data, [key |-> Head(pending), df |-> features(Head(pending), shape)])
          /\ loads' = Append(loads, [key |-> Head(pending), ok |-> TRUE])
          /\ pending' = Tail(pending)
     \/ /\ data' = data
        /\ loads' = Append(loads, [key |-> Head(pending), ok |-> FALSE])
        /\ pending' = after_failure(pending)
  /\ pc' = IF pending' = <<>> THEN "ready" ELSE "load"

\* ------------------------------------------------------------------ checks
\* What a check gives its caller: None, a DataFrame (its rows, in order) or
\* an exception.
Returned(rows) ==
  [kind |-> IF rows = <<>> THEN "None" ELSE "DataFrame", rows |-> rows, error |-> "none"]

Raised(e) == [kind |-> "raise", rows |-> <<>>, error |-> e]

\* Line 116: the columns of df whose null count exceeds missing_data_num.
missing_data_columns(df, num) == {c \in df.columns : NullCount(df, c) > num}

\* Lines 115-123: the loop of check_missing_data over self.data.  Reading
\* the null count of a column that df does not have raises KeyError.
RECURSIVE missing_data_loop(_, _, _)
missing_data_loop(d, num, rows) ==
  IF d = <<>> THEN Returned(rows)
  ELSE LET filename == Head(d).key
           df == Head(d).df
       IN IF missing_data_columns(df, num) # {}
          THEN IF \E c \in OHLCVSet : c \notin df.columns
               THEN Raised("KeyError")
               ELSE missing_data_loop(Tail(d), num,
                      Append(rows, [instruments |-> filename,
                                    open |-> NullCount(df, "open"),
                                    high |-> NullCount(df, "high"),
                                    low |-> NullCount(df, "low"),
                                    close |-> NullCount(df, "close"),
                                    volume |-> NullCount(df, "volume")]))
          ELSE missing_data_loop(Tail(d), num, rows)

check_missing_data(d, num) == missing_data_loop(d, num, <<>>)

\* Line 145.
threshold(col) ==
  IF col = "volume" THEN large_step_threshold_volume ELSE large_step_threshold_price

\* Line 147: the positions of pct_change[pct_change > threshold].
large_steps(pct_change, thr) == {i \in 1..Len(pct_change) : Gt(pct_change[i], thr)}

first_label_is_last(df, steps) == df.index[CHOOSE i \in steps : \A j \in steps : i >= j]

\* Line 150: large_steps.index.to_list()[0], the first label of large_steps.
first_label(df, steps) == df.index[CHOOSE i \in steps : \A j \in steps : i <= j]

\* Lines 142-152: the loop over the columns of one df.  Line 150 takes
\* element [1] of the first label, which a RangeIndex label (an int) does
\* not have.
RECURSIVE large_step_columns(_, _, _, _)
large_step_columns(filename, df, cols, rows) ==
  IF cols = <<>> THEN Returned(rows)
  ELSE LET col == Head(cols)
       IN IF col \in df.columns
          THEN LET pct_change == PctChangeAbs(df.col[col])
                   steps == large_steps(pct_change, threshold(col))
               IN IF Gt(PctMax(pct_change), threshold(col))
                  THEN IF df.index_kind = "MultiIndex"
                       THEN large_step_columns(filename, df, Tail(cols),
                              Append(rows, [instruments |-> filename,
                                            col_name |-> col,
                                            date |-> strftime(first_label(df, steps)[2]),
                                            pct_change |-> PctMax(pct_change)]))
                       ELSE Raised("TypeError")
                  ELSE large_step_columns(filename, df, Tail(cols), rows)
          ELSE large_step_columns(filename, df, Tail(cols), rows)

\* Lines 140-152: the loop of check_large_step_changes over self.data.
RECURSIVE large_step_loop(_, _)
large_step_loop(d, rows) ==
  IF d = <<>> THEN Returned(rows)
  ELSE LET r == large_step_columns(Head(d).key, Head(d).df, OHLCV, rows)
       IN IF r.kind = "raise" THEN r ELSE large_step_loop(Tail(d), r.rows)

check_large_step_changes(d) == large_step_loop(d, <<>>)

\* Line 170.
RECURSIVE missing_required_columns(_, _)
missing_required_columns(df, cols) ==
  IF cols = <<>> THEN <<>>
  ELSE IF Head(cols) \notin df.columns
       THEN <<Head(cols)>> \o missing_required_columns(df, Tail(cols))
       ELSE missing_required_columns(df, Tail(cols))

\* Lines 168-172: the loop of check_required_columns, which grows the two
\* lists of result_dict.
RECURSIVE required_columns_loop(_, _)
required_columns_loop(d, result_dict) ==
  IF d = <<>> THEN result_dict
  ELSE LET filename == Head(d).key
           df == Head(d).df
       IN IF ~(\A column \in OHLCVSet : column \in df.columns)
          THEN required_columns_loop(Tail(d),
                 [instruments |-> Append(result_dict.instruments, filename),
                  missing_col |-> result_dict.missing_col \o missing_required_columns(df, OHLCV)])
          ELSE required_columns_loop(Tail(d), result_dict)

\* Line 174: pd.DataFrame(result_dict) needs lists of one length.
check_required_columns(d) ==
  LET result_dict == required_columns_loop(d, [instruments |-> <<>>, missing_col |-> <<>>])
  IN IF Len(result_dict.instruments) # Len(result_dict.missing_col)
     THEN Raised("ValueError")
     ELSE Returned([i \in 1..Len(result_dict.instruments) |->
                      [instruments |-> result_dict.instruments[i],
                       missing_col |-> result_dict.missing_col[i]]])

\* Line 194.
is_index(filename) == \E k \in 1..Len(index_codes) : Contains(filename, index_codes[k])

factor_any_null(df) ==
  \E i \in 1..Len(df.col["factor"]) : IsNull(df.col["factor"][i])

\* Line 202: df["factor"].isnull().all(), which is True of an empty column.
factor_all_null(df) ==
  \A i \in 1..Len(df.col["factor"]) : IsNull(df.col["factor"][i])

\* Lines 192-209: the loop of check_missing_factor.
RECURSIVE missing_factor_loop(_, _)
missing_factor_loop(d, rows) ==
  IF d = <<>> THEN Returned(rows)
  ELSE LET filename == Head(d).key
           df == Head(d).df
       IN IF is_index(filename) THEN missing_factor_loop(Tail(d), rows)
          ELSE IF "factor" \notin df.columns
          THEN missing_factor_loop(Tail(d),
                 Append(rows, [instruments |-> filename,
                               missing_factor_col |-> TRUE,
                               missing_factor_data |-> FALSE]))
          ELSE IF factor_all_null(df)
          THEN IF \E k \in 1..Len(rows) : rows[k].instruments = filename
               THEN missing_factor_loop(Tail(d),
                      [k \in 1..Len(rows) |->
                         IF k = (CHOOSE m \in 1..Len(rows) :
                                   /\ rows[m].instruments = filename
                                   /\ \A n \in 1..Len(rows) :
                                        rows[n].instruments = filename => m <= n)
                         THEN [rows[k] EXCEPT !.missing_factor_data = TRUE]
                         ELSE rows[k]])
               ELSE missing_factor_loop(Tail(d),
                      Append(rows, [instruments |-> filename,
                                    missing_factor_col |-> FALSE,
                                    missing_factor_data |-> TRUE]))
          ELSE missing_factor_loop(Tail(d), rows)

check_missing_factor(d) == missing_factor_loop(d, <<>>)

\* Lines 218-249: check_data runs the four checks in order, an exception of
\* one of them ends it, and it prints the summary; it returns None.  The
\* rows are what it printed.
check_data(d, num) ==
  LET r1 == check_missing_data(d, num)
      r2 == check_large_step_changes(d)
      r3 == check_required_columns(d)
      r4 == check_missing_factor(d)
      has_issues == \/ r1.kind # "None"
                    \/ r2.kind # "None"
                    \/ r3.kind # "None"
                    \/ r4.kind # "None"
      table(name, r) == IF r.kind = "DataFrame" THEN <<[text |-> name, table |-> r.rows]>> ELSE <<>>
  IN IF r1.kind = "raise" THEN r1
     ELSE IF r2.kind = "raise" THEN r2
     ELSE IF r3.kind = "raise" THEN r3
     ELSE IF r4.kind = "raise" THEN r4
     ELSE [kind |-> "None",
           rows |-> IF has_issues
                    THEN <<[text |-> "Summary of data health check", files |-> Len(d)]>>
                         \o table("There is missing data.", r1)
                         \o table("The OHLCV column has large step changes.", r2)
                         \o table("Columns (OLHCV) are missing.", r3)
                         \o table("The factor column does not exist or is empty", r4)
                    ELSE <<[text |-> "Data health check passed!", files |-> Len(d)]>>,
           error |-> "none"]

Call(op, ret) == [op |-> op, kind |-> ret.kind, rows |-> ret.rows, error |-> ret.error]

\* Lines 252-253: fire.Fire(DataHealthChecker) runs the named method; the
\* process ends with status 0 when the method returns, whatever it returns,
\* and with status 1 on an uncaught exception. No line calls sys.exit.
exit_status(call) == IF call.kind = "raise" THEN 1 ELSE 0

CheckMissingData_drops_series ==
  /\ pc = "ready"
  /\ last' = Call("check_missing_data", check_missing_data(data, missing_data_num))
  /\ again' = (last.op = "check_missing_data")
  /\ data' = IF data = <<>> THEN data ELSE Tail(data)
  /\ UNCHANGED <<pc, csv_path, qlib_dir, missing_data_num, pending,
                 attempted, loads, error>>

CheckMissingData ==
  /\ pc = "ready"
  /\ last' = Call("check_missing_data", check_missing_data(data, missing_data_num))
  /\ again' = (last.op = "check_missing_data")
  /\ UNCHANGED <<pc, csv_path, qlib_dir, missing_data_num, data, pending,
                 attempted, loads, error>>

CheckLargeStepChanges ==
  /\ pc = "ready"
  /\ last' = Call("check_large_step_changes", check_large_step_changes(data))
  /\ again' = (last.op = "check_large_step_changes")
  /\ UNCHANGED <<pc, csv_path, qlib_dir, missing_data_num, data, pending,
                 attempted, loads, error>>

CheckRequiredColumns ==
  /\ pc = "ready"
  /\ last' = Call("check_required_columns", check_required_columns(data))
  /\ again' = (last.op = "check_required_columns")
  /\ UNCHANGED <<pc, csv_path, qlib_dir, missing_data_num, data, pending,
                 attempted, loads, error>>

CheckMissingFactor ==
  /\ pc = "ready"
  /\ last' = Call("check_missing_factor", check_missing_factor(data))
  /\ again' = (last.op = "check_missing_factor")
  /\ UNCHANGED <<pc, csv_path, qlib_dir, missing_data_num, data, pending,
                 attempted, loads, error>>

CheckData_forgets_findings ==
  /\ pc = "ready"
  /\ last' = Call("check_data", check_data(IF last.op = "check_data" THEN <<>> ELSE data,
                                           missing_data_num))
  /\ again' = (last.op = "check_data")
  /\ UNCHANGED <<pc, csv_path, qlib_dir, missing_data_num, data, pending,
                 attempted, loads, error>>

CheckData ==
  /\ pc = "ready"
  /\ last' = Call("check_data", check_data(data, missing_data_num))
  /\ again' = (last.op = "check_data")
  /\ UNCHANGED <<pc, csv_path, qlib_dir, missing_data_num, data, pending,
                 attempted, loads, error>>

Next ==
  \/ Construct
  \/ ReadCsv
  \/ ResolveMarket
  \/ LoadInstrument
  \/ CheckMissingData
  \/ CheckLargeStepChanges
  \/ CheckRequiredColumns
  \/ CheckMissingFactor
  \/ CheckData

Spec == Init /\ [][Next]_vars

\* ------------------------------------------------------------------ claims
\* The keys of a sequence of keyed records, in order.
KeysOf(seq) == [i \in 1..Len(seq) |-> seq[i].key]

RECURSIVE Succeeded(_)
Succeeded(ls) ==
  IF ls = <<>> THEN <<>>
  ELSE IF Head(ls).ok THEN <<Head(ls).key>> \o Succeeded(Tail(ls))
  ELSE Succeeded(Tail(ls))

Outcome(i) == attempted[i].outcome

\* C1: the constructor gets past its assertions only when exactly one of
\* csv_path and qlib_dir is given; with neither or both it raises the
\* assertion's error before anything is listed, resolved or loaded, and
\* self.data holds nothing.
C1_ExactlyOneSource ==
  /\ pc \notin {"start", "raised"} => (csv_path # qlib_dir)
  /\ (pc # "start" /\ csv_path = qlib_dir) =>
       /\ pc = "raised"
       /\ error = "AssertionError"
       /\ attempted = <<>>
       /\ loads = <<>>
       /\ data = <<>>
       /\ last = NoCall

C1_Witness == pc = "raised" /\ csv_path /\ qlib_dir /\ error = "AssertionError"

C3_AllMarketsFail ==
  (/\ attempted # <<>>
   /\ pc # "resolve"
   /\ \A i \in 1..Len(attempted) : Outcome(i) # "ok") =>
    /\ pc = "raised"
    /\ error # "none"
    /\ error = IF IsValueError(Outcome(Len(attempted))) THEN Outcome(1)
               ELSE Outcome(Len(attempted))
    /\ loads = <<>>
    /\ pending = <<>>
    /\ data = <<>>
    /\ last = NoCall

C3_Witness ==
  /\ pc = "raised"
  /\ Len(attempted) = Len(Markets)
  /\ \A i \in 1..Len(attempted) : Outcome(i) # "ok"
  /\ error = "ValueError:all.txt"

\* C4: while and after the resolved universe is loaded, the instruments
\* attempted so far and those still to do make up the universe in its order
\* (a failed load skips nothing), and self.data holds exactly the
\* instruments whose load succeeded, in that order, each once.
C4_LoadFailureIsSkipped ==
  (qlib_dir /\ ~csv_path /\ pc \in {"load", "ready"}) =>
    LET u == Universe(attempted[Len(attempted)].market)
    IN /\ KeysOf(loads) \o pending = u
       /\ KeysOf(data) = Succeeded(loads)
       /\ \A i \in 1..Len(loads) :
            loads[i].ok <=> (\E k \in 1..Len(data) : data[k].key = loads[i].key)
       /\ pc = "ready" => (pending = <<>> /\ KeysOf(loads) = u)
       /\ error = "none"

C4_Witness ==
  /\ pc = "ready"
  /\ qlib_dir
  /\ Len(loads) = 2
  /\ ~loads[1].ok
  /\ loads[2].ok
  /\ KeysOf(data) = <<loads[2].key>>

\* The rows of the last call's table that are about the series `key`.
RowsOf(key) == {i \in 1..Len(last.rows) : last.rows[i].instruments = key}

\* Some OHLCV column that the series has holds more nulls than tolerated.
HasOhlcvNulls(df) ==
  \E c \in OHLCVSet \cap df.columns : NullCount(df, c) > missing_data_num

\* C5: whenever the missing-data check returns, the series it has a row for
\* are exactly those with more than missing_data_num nulls in one of open,
\* high, low, close, volume; nulls in other columns flag nothing.
C5_FlaggedIffOhlcvNulls ==
  (last.op = "check_missing_data" /\ last.kind # "raise") =>
    \A k \in 1..Len(data) :
      RowsOf(data[k].key) # {} <=> HasOhlcvNulls(data[k].df)

\* C6: the missing-data check gives every series with more than
\* missing_data_num nulls in an OHLCV column exactly one row, and the row
\* holds the number of nulls of each OHLCV column the series has.
C6_RowHoldsNullCounts ==
  last.op = "check_missing_data" =>
    \A k \in 1..Len(data) :
      HasOhlcvNulls(data[k].df) =>
        /\ last.kind = "DataFrame"
        /\ Cardinality(RowsOf(data[k].key)) = 1
        /\ \A i \in RowsOf(data[k].key) :
             \A c \in OHLCVSet \cap data[k].df.columns :
               last.rows[i][c] = NullCount(data[k].df, c)

\* The change from observation t-1 to observation t of a column is defined.
ChangeDefined(s, t) ==
  /\ t \in 2..Len(s)
  /\ ~IsNull(s[t])
  /\ ~IsNull(s[t - 1])
  /\ ~(Val(s[t]) = 0 /\ Val(s[t - 1]) = 0)

\* The absolute change into observation t is more than the fraction thr.
ExceedsAt(s, t, thr) ==
  /\ ChangeDefined(s, t)
  /\ Abs(Val(s[t]) - Val(s[t - 1])) * thr[2] > thr[1] * Abs(Val(s[t - 1]))

ThresholdOf(c) == IF c \in {"open", "high", "low", "close"} THEN <<1, 2>> ELSE <<3, 1>>

Exceeds(df, c) ==
  /\ c \in df.columns
  /\ \E t \in 1..Len(df.col[c]) : ExceedsAt(df.col[c], t, ThresholdOf(c))

\* C7: the large-step check returns, and it has one row for a series and an
\* OHLCV column if the column exists and some change of it, from the second
\* observation on, is more than the column's threshold (0.5 for the prices,
\* 3 for volume), and no row for the pair otherwise.
C7_FlaggedIffLargeStep ==
  last.op = "check_large_step_changes" =>
    /\ last.kind # "raise"
    /\ \A k \in 1..Len(data) : \A c \in OHLCVSet :
         Cardinality({i \in RowsOf(data[k].key) : last.rows[i].col_name = c})
           = IF Exceeds(data[k].df, c) THEN 1 ELSE 0

FrameOf(key) == data[CHOOSE k \in 1..Len(data) : data[k].key = key].df

\* C8: every row of the large-step check holds the date of the first
\* observation of its column whose change is more than the threshold, and
\* the largest change of the column; a series with close 100, 101, 250 gets
\* the row (close, date of the third observation, 149/101).
C8_FirstDateAndMaxChange ==
  (last.op = "check_large_step_changes" /\ last.kind = "DataFrame") =>
    /\ \A i \in 1..Len(last.rows) :
         LET row == last.rows[i]
             df == FrameOf(row.instruments)
             s == df.col[row.col_name]
             thr == ThresholdOf(row.col_name)
         IN /\ \E t \in 1..Len(s) :
                 /\ ExceedsAt(s, t, thr)
                 /\ \A u \in 1..(t - 1) : ~ExceedsAt(s, u, thr)
                 /\ row.date = strftime(Timestamps[t])
            /\ \E t \in 1..Len(s) :
                 /\ ChangeDefined(s, t)
                 /\ row.pct_change[1] * Abs(Val(s[t - 1]))
                      = Abs(Val(s[t]) - Val(s[t - 1])) * row.pct_change[2]
            /\ \A t \in 1..Len(s) :
                 ChangeDefined(s, t) =>
                   row.pct_change[1] * Abs(Val(s[t - 1]))
                     >= Abs(Val(s[t]) - Val(s[t - 1])) * row.pct_change[2]
    /\ \A k \in 1..Len(data) :
         data[k].df.col["close"] = <<{100}, {101}, {250}>> =>
           \E i \in RowsOf(data[k].key) :
             /\ last.rows[i].col_name = "close"
             /\ last.rows[i].date = "2020-01-06"
             /\ last.rows[i].pct_change = <<149, 101>>

C8_Witness ==
  /\ last.op = "check_large_step_changes"
  /\ \E i \in 1..Len(last.rows) :
       /\ last.rows[i].col_name = "close"
       /\ last.rows[i].date = "2020-01-06"
       /\ last.rows[i].pct_change = <<149, 101>>
  /\ \E i \in 1..Len(last.rows) :
       /\ last.rows[i].date = "2020-01-03"
       /\ last.rows[i].pct_change = <<3, 2>>

\* C9: for a series without some OHLCV column, the required-columns check
\* has a row naming each such column, and the large-step check returns, has
\* no row for such a column, and has a row for each column the series has
\* exactly when that column has a large step.
C9_AbsentColumnIsSkipped ==
  \A k \in 1..Len(data) :
    LET df == data[k].df
        absent == OHLCVSet \ df.columns
    IN absent # {} =>
         /\ last.op = "check_required_columns" =>
              /\ last.kind = "DataFrame"
              /\ \A c \in absent :
                   \E i \in RowsOf(data[k].key) : last.rows[i].missing_col = c
         /\ last.op = "check_large_step_changes" =>
              /\ last.kind # "raise"
              /\ \A i \in RowsOf(data[k].key) : last.rows[i].col_name \notin absent
              /\ \A c \in OHLCVSet \cap df.columns :
                   (\E i \in RowsOf(data[k].key) : last.rows[i].col_name = c)
                     <=> Exceeds(df, c)

\* C10: the required-columns check returns, and the columns its rows name
\* for a series are exactly the OHLCV columns the series lacks (so a series
\* has a row exactly when it lacks one).
C10_ExactlyTheMissingColumns ==
  last.op = "check_required_columns" =>
    /\ last.kind # "raise"
    /\ \A k \in 1..Len(data) :
         {last.rows[i].missing_col : i \in RowsOf(data[k].key)}
           = OHLCVSet \ data[k].df.columns

\* The series is one the missing-factor check looks at: its identifier
\* contains none of the index codes.
NonExempt(key) == \A k \in 1..Len(index_codes) : ~Contains(key, index_codes[k])

\* The factor column exists and every one of its cells is null (an empty
\* column has no cell that is not).
FactorEntirelyNull(df) ==
  /\ "factor" \in df.columns
  /\ ~(\E i \in 1..Len(df.col["factor"]) : df.col["factor"][i] # NaN)

\* C11: the missing-factor check returns, and for a series that is not
\* exempt it has one row (missing_factor_col = TRUE, missing_factor_data =
\* FALSE) when the factor column is absent, one row (FALSE, TRUE) when the
\* column is there and entirely null, and no row when the column holds a
\* value.
C11_FactorAbsentOrEmpty ==
  last.op = "check_missing_factor" =>
    /\ last.kind # "raise"
    /\ \A k \in 1..Len(data) :
         NonExempt(data[k].key) =>
           LET df == data[k].df
               rows == {last.rows[i] : i \in RowsOf(data[k].key)}
           IN /\ Cardinality(RowsOf(data[k].key)) <= 1
              /\ rows = IF "factor" \notin df.columns
                        THEN {[instruments |-> data[k].key,
                               missing_factor_col |-> TRUE,
                               missing_factor_data |-> FALSE]}
                        ELSE IF FactorEntirelyNull(df)
                        THEN {[instruments |-> data[k].key,
                               missing_factor_col |-> FALSE,
                               missing_factor_data |-> TRUE]}
                        ELSE {}

C11_Witness ==
  /\ last.op = "check_missing_factor"
  /\ Len(data) = 2
  /\ \E k \in 1..Len(data) :
       /\ NonExempt(data[k].key)
       /\ Len(data[k].df.col["open"]) = 2
       /\ FactorEntirelyNull(data[k].df)
  /\ \E i \in 1..Len(last.rows) :
       ~last.rows[i].missing_factor_col /\ last.rows[i].missing_factor_data

\* Exemption lists a caller may want: the index symbols, none, and the first
\* instrument of the fixture (as the provider and as the csv loader key it).
ExemptionLists ==
  { {"^TWII", "^TWII.csv"},
    {},
    {InstrumentNames[1], FileNames[1]} }

\* C12: whatever exemption list is configured, the missing-factor check has
\* no row for a series the list names, and has a row with missing_factor_col
\* = TRUE for a series the list does not name that has no factor column.
C12_ConfiguredExemptions ==
  last.op = "check_missing_factor" =>
    \A exempt \in ExemptionLists : \A k \in 1..Len(data) :
      /\ data[k].key \in exempt => RowsOf(data[k].key) = {}
      /\ (data[k].key \notin exempt /\ "factor" \notin data[k].df.columns) =>
           \E i \in RowsOf(data[k].key) : last.rows[i].missing_factor_col

\* The four checks of the current store, by the warning text under which
\* check_data prints each one's table.
CheckResults ==
  [ t \in { "There is missing data.",
            "The OHLCV column has large step changes.",
            "Columns (OLHCV) are missing.",
            "The factor column does not exist or is empty" } |->
      CASE t = "There is missing data." -> check_missing_data(data, missing_data_num)
        [] t = "The OHLCV column has large step changes." -> check_large_step_changes(data)
        [] t = "Columns (OLHCV) are missing." -> check_required_columns(data)
        [] OTHER -> check_missing_factor(data) ]

\* The checks that produced at least one finding.
ChecksWithFindings == {t \in DOMAIN CheckResults : CheckResults[t].kind = "DataFrame"}

ReportsIssues ==
  /\ last.kind = "None"
  /\ last.rows # <<>>
  /\ last.rows[1].text = "Summary of data health check"

ReportsPassed ==
  /\ last.kind = "None"
  /\ last.rows # <<>>
  /\ last.rows[1].text = "Data health check passed!"

\* The tables printed under the summary line.
ReportedTables == {last.rows[i].text : i \in 2..Len(last.rows)}

\* C13: the combined run reports issues iff at least one of the four checks
\* produced a finding, reports a passed check iff none did, and prints a table
\* for exactly the checks that have findings.
C13_IssuesIffSomeFinding ==
  last.op = "check_data" =>
    /\ ReportsIssues <=> ChecksWithFindings # {}
    /\ ReportsPassed <=> ChecksWithFindings = {}
    /\ ReportsIssues => ReportedTables = ChecksWithFindings

\* C14: a combined run that completes signals its caller: the exit status is
\* the failing (non-zero) value when some check produced a finding and the
\* passing value (zero) when none did.
C14_ExitStatusSignalsFindings ==
  (last.op = "check_data" /\ last.kind # "raise") =>
    (exit_status(last) # 0 <=> ChecksWithFindings # {})

\* A series that lacks one of open, high, low, close, volume, factor.
Defective(df) == ~((OHLCVSet \cup {"factor"}) \subseteq df.columns)

DefectiveKeys == {data[k].key : k \in {j \in 1..Len(data) : Defective(data[j].df)}}

\* The store as it would be had the defective series not been loaded.
WithoutDefective == 
  LET Sound(entry) == ~Defective(entry.df) IN SelectSeq(data, Sound)

\* What a check returns on store d.
ResultOn(op, d) ==
  CASE op = "check_missing_data" -> check_missing_data(d, missing_data_num)
    [] op = "check_large_step_changes" -> check_large_step_changes(d)
    [] op = "check_required_columns" -> check_required_columns(d)
    [] op = "check_missing_factor" -> check_missing_factor(d)
    [] OTHER -> check_data(d, missing_data_num)

\* The findings of a table that are about the other series.
AboutOthers(rows) ==
  LET Other(row) == row.instruments \notin DefectiveKeys IN SelectSeq(rows, Other)

\* The table a combined report prints under a warning text, <<>> if none.
TableOf(report, t) ==
  IF \E i \in 2..Len(report) : report[i].text = t
  THEN report[CHOOSE i \in 2..Len(report) : report[i].text = t].table
  ELSE <<>>

\* C15: on a store where some series lacks one of open, high, low, close,
\* volume, factor, every check and the combined run return without raising,
\* and their findings about the other series are the findings on the store
\* without the defective series.
C15_MissingColumnNeverAborts ==
  (last.op # "none" /\ DefectiveKeys # {}) =>
    /\ last.kind # "raise"
    /\ IF last.op = "check_data"
       THEN \A t \in DOMAIN CheckResults :
              AboutOthers(TableOf(last.rows, t)) =
                TableOf(ResultOn("check_data", WithoutDefective).rows, t)
       ELSE AboutOthers(last.rows) = ResultOn(last.op, WithoutDefective).rows

\* The warning text under which check_data prints the table of a check.
TextOf(op) ==
  CASE op = "check_missing_data" -> "There is missing data."
    [] op = "check_large_step_changes" -> "The OHLCV column has large step changes."
    [] op = "check_required_columns" -> "Columns (OLHCV) are missing."
    [] op = "check_missing_factor" -> "The factor column does not exist or is empty"

IndividualChecks ==
  {"check_missing_data", "check_large_step_changes", "check_required_columns",
   "check_missing_factor"}

C17_EmptyStoreReportsNoData ==
  (pc = "ready" /\ data = <<>> /\ last.op # "none") =>
    /\ last.kind # "raise"
    /\ last.op = "check_data" => ~ReportsPassed

\* C18: once the instance is constructed, no check and no combined run
\* changes the store (the loaded instruments, their columns and values) or
\* the configured tolerance; the instance stays constructed.
C18_StoreIsReadOnly ==
  [][ pc = "ready" =>
        /\ data' = data
        /\ missing_data_num' = missing_data_num
        /\ csv_path' = csv_path /\ qlib_dir' = qlib_dir
        /\ pc' = "ready" ]_vars

\* A check has reported findings and the store still holds, in order, the
\* two series the constructor loaded.
C18_Witness ==
  /\ pc = "ready"
  /\ last.op = "check_large_step_changes"
  /\ last.kind = "DataFrame"
  /\ Len(data) = 2
  /\ KeysOf(data) = KeysOf(SelectSeq(loads, LAMBDA l : l.ok))

\* The instrument a file of the fixture holds.
Stem(filename) == InstrumentNames[CHOOSE i \in 1..Len(FileNames) : FileNames[i] = filename]

\* The timestamp a formatted date stands for.
ParseDate(text) == CHOOSE t \in Range(Timestamps) : strftime(t) = text

\* The same observations as the provider keys and indexes them: the series
\* under the instrument's name, rows labelled <<instrument, timestamp>> with
\* the timestamp taken from the date column, which is no longer a column.
AsProvider(entry) ==
  LET df == entry.df
  IN [key |-> Stem(entry.key),
      df |-> [index_kind |-> "MultiIndex",
              index |-> [i \in 1..Len(df.index) |->
                           <<Stem(entry.key), ParseDate(Val(df.col["date"][i]))>>],
              columns |-> df.columns \ {"date"},
              col |-> [c \in df.columns \ {"date"} |-> df.col[c]]]]

ProviderStore == [k \in 1..Len(data) |-> AsProvider(data[k])]

\* Findings with the file names replaced by the instruments' names.
Renamed(rows) == [i \in 1..Len(rows) |-> [rows[i] EXCEPT !.instruments = Stem(@)]]

\* C19: on a store loaded from files, every check and the combined run
\* return without raising, and each check's findings are, up to the naming
\* of the series, the findings on the same observations loaded from the
\* provider; so a large step in a file is reported with its date.
C19_SourceAgnostic ==
  (pc = "ready" /\ csv_path /\ last.op # "none") =>
    /\ last.kind # "raise"
    /\ last.op \in IndividualChecks =>
         Renamed(last.rows) = ResultOn(last.op, ProviderStore).rows

\* The primary market failed with a ValueError whose message names all.txt.
PrimaryNamesAllTxt == IsValueError(Outcome(1)) /\ NamesAllTxt(Outcome(1))

OccursIn(code, name) ==
  \E i \in 0..Len(name) : \E j \in (i + 1)..(Len(name) + 1) :
    SubSeq(name, 1, i) \o code \o SubSeq(name, j, Len(name)) = name

ContainsIndexCode(key) == \E k \in 1..Len(index_codes) : OccursIn(index_codes[k], key)

\* A series for which the missing-factor check has something to find.
FactorMissing(df) == "factor" \notin df.columns \/ FactorEntirelyNull(df)

\* C21: the missing-factor check has no row for a series whose identifier
\* contains one of the index codes anywhere in it, whether or not it equals
\* the code, even when its factor column is absent or entirely null; a series
\* whose identifier contains no code and whose factor is absent or entirely
\* null has a row.
C21_ExemptBySubstring ==
  last.op = "check_missing_factor" =>
    \A k \in 1..Len(data) :
      /\ ContainsIndexCode(data[k].key) => RowsOf(data[k].key) = {}
      /\ (FactorMissing(data[k].df) /\ ~ContainsIndexCode(data[k].key)) =>
           RowsOf(data[k].key) # {}

\* The check ran on a store with a series whose identifier contains an index
\* code without being one, and whose factor column is absent or entirely
\* null; the check returned no row for it.
C21_Witness ==
  /\ last.op = "check_missing_factor"
  /\ \E k \in 1..Len(data) :
       /\ data[k].key \notin Range(index_codes)
       /\ ContainsIndexCode(data[k].key)
       /\ FactorMissing(data[k].df)
       /\ data[k].df.index # <<>>
       /\ RowsOf(data[k].key) = {}

\* The rows check_missing_factor has gathered when its loop comes to the
\* k-th series of the store.
RowsBefore(k) == missing_factor_loop(SubSeq(data, 1, k - 1), <<>>).rows

\* Lines 202-205: the loop comes to the k-th series, finds its factor column
\* entirely null and the series already in the rows, and updates that row.
UpdatesRecordedRow(k) ==
  /\ ~is_index(data[k].key)
  /\ "factor" \in data[k].df.columns
  /\ factor_all_null(data[k].df)
  /\ \E i \in 1..Len(RowsBefore(k)) : RowsBefore(k)[i].instruments = data[k].key

\* C22: in what the missing-factor check returns every instrument has at
\* most one row, every row has exactly one of missing_factor_col and
\* missing_factor_data set, and on no series of the store does the loop take
\* the branch that updates a row already recorded.
C22_OneRowOneFlag ==
  last.op = "check_missing_factor" =>
    /\ \A i, j \in 1..Len(last.rows) :
         last.rows[i].instruments = last.rows[j].instruments => i = j
    /\ \A i \in 1..Len(last.rows) :
         last.rows[i].missing_factor_col # last.rows[i].missing_factor_data
    /\ \A k \in 1..Len(data) : ~UpdatesRecordedRow(k)

\* The check returned a row for each of two instruments.
C22_Witness ==
  /\ last.op = "check_missing_factor"
  /\ Len(last.rows) = 2
  /\ last.rows[1].instruments # last.rows[2].instruments
  /\ KeysOf(data) = <<last.rows[1].instruments, last.rows[2].instruments>>

====
